---- MODULE Spec2Model ----
(***************************************************************************)
(* State-machine model of the random-quran-verse plugin.                   *)
(*                                                                         *)
(*   - the verse card: renderVerse and its retry timer (src/src/main.ts,   *)
(*     lines 82-239), checked under SpecCard;                              *)
(*   - the settings tab: fetchMetadata, fetchLanguages,                    *)
(*     fetchTranslationEditions, fetchAndProcessTafsirs and the dropdown   *)
(*     handlers (src/src/settings.ts, lines 775-1173), checked under       *)
(*     SpecMeta.                                                           *)
(*                                                                         *)
(* JavaScript is single-threaded: a handler runs from one await to the     *)
(* next without interleaving, so every action below is one such run: the   *)
(* code from an entry point or from the resumption of an await up to the   *)
(* next await (or the end of the handler).                                 *)
(***************************************************************************)
EXTENDS Integers, Sequences, FiniteSets, TLC

VARIABLES
    \* ---- verse card (main.ts) ----
    cardPc,      \* where renderVerse stands: unrendered, awaitRef, awaitEditions, shown, failed
    cycle,       \* number of renderVerse executions started (identifies the container)
    draw,        \* Math.floor(Math.random() * 6236) + 1 of the current cycle
    reference,   \* randomJson.data.number of the current cycle (0: not yet known)
    refReq,      \* the reference lookup of the current cycle
    arReq,       \* the quran-uthmani lookup of the current cycle
    trReq,       \* the translation lookup of the current cycle
    skeleton,    \* the four skeleton divs are in the container
    content,     \* the content parts created in the container, in order
    timers,      \* pending window.setTimeout callbacks
    tornDown,    \* the host removed the block: el detached, ctx children unloaded
    cardCalls,   \* requestUrl calls made by the card
    cleared,     \* pending timers cancelled by window.clearTimeout
    lookup,      \* the commentary lookup the latest step issued, skipped or settled
    inFlight,    \* the commentary requests in flight
    disabled,    \* the cycles whose tafsir button is disabled
    opened,      \* the TafsirModal the latest step opened
    cardNotices, \* the Notice messages the click handler raised in the latest step
    arabicSpan,  \* the text of the span of the quran-arabic div, in pieces
    digitsArg,   \* a number handed to toArabicDigits on its own
    digitsResult,\* what the call returned, character by character
    \* ---- plugin and settings tab (settings.ts) ----
    settings,          \* plugin.settings
    stored,            \* data.json: <<>> when absent, else <<the saved record>>
    languages,         \* QuranSettingTab.languages
    tafsirLanguages,   \* QuranSettingTab.tafsirLanguages
    editions,          \* QuranSettingTab.editions
    tafsirEditions,    \* QuranSettingTab.tafsirEditions
    isLoadingMetadata, \* QuranSettingTab.isLoadingMetadata
    ui,                \* the options of the four dropdowns as last built by display()
    pc,                \* where each asynchronous handler of the settings tab stands
    locals,            \* per handler: the language its edition URL was built from,
                       \* and the tafsir payload it holds across an await
    userOps,           \* dropdown changes made by the user so far
    remember,          \* history is kept: TRUE or FALSE for the whole behaviour
    atStart,           \* history: <<the four catalogs as the pass in flight found them>>,
                       \* <<>> when no pass is in flight or no history is kept
    \* ---- what the latest step of the settings tab did ----
    ran,               \* the entry point called, or the handler that resumed
    requests,          \* the requestUrl calls it made, in order
    notices,           \* the Notice messages it raised, in order
    unhandled          \* a rejection left its handler uncaught

tafsirVars == <<lookup, inFlight, disabled, opened, cardNotices>>
digitVars == <<digitsArg, digitsResult>>
cardVars == <<cardPc, cycle, draw, reference, refReq, arReq, trReq, skeleton,
              content, arabicSpan, timers, tornDown, cardCalls, cleared, tafsirVars,
              digitVars>>
tabVars == <<settings, stored, languages, tafsirLanguages, editions, tafsirEditions,
             isLoadingMetadata, ui, notices, unhandled>>
metaVars == <<tabVars, pc, locals, userOps, remember, atStart, ran, requests>>
vars == <<cardVars, metaVars>>

----------------------------------------------------------------------------
(* Bounds of the model *)

MaxCycles == 3         \* render cycles followed per card
TickMs == 2500         \* granularity of the passage of time
MaxUserOps == 1        \* dropdown changes followed
MaxListLen == 2        \* longest language list handed to the catalog construction
MaxNumber == 300       \* largest number handed to toArabicDigits on its own

(* Program constants *)

TotalVerses == 6236
RetryDelayMs == 5000
HttpOk == 200

\* Sample global indices: both ends of the range of the random draw, and the
\* draw of the end-to-end scenario.
Draws == {1, 500, TotalVerses}
\* Indices the remote source may answer with instead of the one asked for.
Renumbered == {777}
\* Logical codes of a response other than 200.
ErrorCodes == {404}

Min(a, b) == IF a < b THEN a ELSE b

----------------------------------------------------------------------------
(* Strings whose characters the program looks at (language codes and        *)
(* language names) are sequences of one-character strings.                  *)

Lowers == <<"a", "b", "c", "d", "e", "f", "g", "h", "i", "j", "k", "l", "m",
            "n", "o", "p", "q", "r", "s", "t", "u", "v", "w", "x", "y", "z">>
Uppers == <<"A", "B", "C", "D", "E", "F", "G", "H", "I", "J", "K", "L", "M",
            "N", "O", "P", "Q", "R", "S", "T", "U", "V", "W", "X", "Y", "Z">>

IsUpper(c) == \E i \in 1..Len(Uppers) : Uppers[i] = c
IsLower(c) == \E i \in 1..Len(Lowers) : Lowers[i] = c
LetterIndex(c) == CHOOSE i \in 1..Len(Lowers) : Lowers[i] = c \/ Uppers[i] = c

CharToLower(c) == IF IsUpper(c) THEN Lowers[LetterIndex(c)] ELSE c
CharToUpper(c) == IF IsLower(c) THEN Uppers[LetterIndex(c)] ELSE c

\* String.prototype.toLowerCase
ToLowerCase(str) == [i \in 1..Len(str) |-> CharToLower(str[i])]

\* langName.charAt(0).toUpperCase() + langName.slice(1)
Capitalize(str) == IF str = <<>> THEN str ELSE <<CharToUpper(str[1])>> \o Tail(str)

\* -1, 0 or 1: the order of two letter strings by their letters alone.
RECURSIVE CompareLetters(_, _)
CompareLetters(a, b) ==
    IF a = <<>> /\ b = <<>> THEN 0
    ELSE IF a = <<>> THEN -1
    ELSE IF b = <<>> THEN 1
    ELSE IF LetterIndex(a[1]) < LetterIndex(b[1]) THEN -1
    ELSE IF LetterIndex(a[1]) > LetterIndex(b[1]) THEN 1
    ELSE CompareLetters(Tail(a), Tail(b))

\* -1, 0 or 1: between two strings of the same letters, the one with a lower
\* case letter at the first place where the cases differ comes first.
RECURSIVE CompareCase(_, _)
CompareCase(a, b) ==
    IF a = <<>> \/ b = <<>> THEN 0
    ELSE IF a[1] = b[1] THEN CompareCase(Tail(a), Tail(b))
    ELSE IF IsLower(a[1]) THEN -1 ELSE 1

\* String.prototype.localeCompare on letter strings: by letters first, by
\* case among strings of the same letters.
LocaleCompare(a, b) ==
    IF CompareLetters(a, b) # 0 THEN CompareLetters(a, b) ELSE CompareCase(a, b)

Last(seq) == seq[Len(seq)]
Front(seq) == SubSeq(seq, 1, Len(seq) - 1)

RECURSIVE InsertByName(_, _)
InsertByName(e, sorted) ==
    IF sorted = <<>> THEN <<e>>
    ELSE IF LocaleCompare(Head(sorted).name, e.name) <= 0
         THEN <<Head(sorted)>> \o InsertByName(e, Tail(sorted))
         ELSE <<e>> \o sorted

\* entries.sort((a, b) => a.name.localeCompare(b.name)): a stable sort.
RECURSIVE SortByName(_)
SortByName(entries) ==
    IF entries = <<>> THEN <<>>
    ELSE InsertByName(Last(entries), SortByName(Front(entries)))

\* Array.from(new Set(seq)): the distinct elements in order of first occurrence.
RECURSIVE Unique(_)
Unique(seq) ==
    IF seq = <<>> THEN <<>>
    ELSE LET rest == Unique(Front(seq)) IN
         IF \E i \in 1..Len(rest) : rest[i] = Last(seq) THEN rest
         ELSE Append(rest, Last(seq))

Range(seq) == {seq[i] : i \in 1..Len(seq)}
Ids(eds) == {eds[i].identifier : i \in 1..Len(eds)}
Codes(langs) == {langs[i].code : i \in 1..Len(langs)}

----------------------------------------------------------------------------
(* Language codes and names *)

en == <<"e", "n">>
ar == <<"a", "r">>
ber == <<"b", "e", "r">>
English == <<"E", "n", "g", "l", "i", "s", "h">>
Arabic == <<"A", "r", "a", "b", "i", "c">>
Berber == <<"B", "e", "r", "b", "e", "r">>
Chechen == <<"C", "h", "e", "c", "h", "e", "n">>

\* new Intl.DisplayNames(['en'], { type: 'language' }).of(code) || code, with
\* the code itself when the call throws (lines 911-919).
IntlDisplayName(code) ==
    CASE code = en -> English
      [] code = ar -> Arabic
      [] OTHER -> code

\* getFullLanguageName: the customNames table first, then Intl.DisplayNames.
getFullLanguageName(code) ==
    CASE ToLowerCase(code) = ber -> Berber
      [] ToLowerCase(code) = <<"c", "e">> -> Chechen
      [] OTHER -> IntlDisplayName(code)

----------------------------------------------------------------------------
(* plugin.settings                                                          *)

DEFAULT_SETTINGS ==
    [translation |-> "en.itani",
     language |-> en,
     fontSize |-> "2.0rem",
     backgroundColor |-> "var(--background-secondary)",
     accentColor |-> "var(--interactive-accent)",
     tafsir |-> "en-tafisr-ibn-kathir",
     tafsirName |-> "Tafsir Ibn Kathir (Abridged)",
     tafsirLanguage |-> en,
     font |-> "\"Noto Naskh Arabic\""]

----------------------------------------------------------------------------
(* Remote requests of the card *)

NoRequest ==
    [state |-> "none", key |-> 0, edition |-> "", code |-> 0, shape |-> "", number |-> 0]

\* requestUrl(`.../v1/ayah/${key}/${edition}`): the request is in flight.
RequestUrl(key, edition) ==
    [state |-> "pending", key |-> key, edition |-> edition, code |-> 0, shape |-> "",
     number |-> 0]

Rejected(req) == [req EXCEPT !.state = "rejected"]

\* The transport succeeded: res.json is {code, data}, data of the given shape.
Fulfilled(req, code, shape, number) ==
    [req EXCEPT !.state = "fulfilled", !.code = code, !.shape = shape, !.number = number]

\* Shapes of a payload: complete; data missing; data.surah missing.
RefShapes == {"full", "noData"}
ArShapes == {"full", "noData"}
TrShapes == {"full", "noData", "noSurah"}

\* Mutant of LookupKey: the edition lookups are keyed by the random draw.
LookupKeyIsDraw(r, json) == r

\* const reference = randomJson.data.number
LookupKey(r, json) == json.number

\* Mutant of EditionLookups: the translation lookup is issued only after the
\* original-language lookup has been awaited.
EditionLookupsInTurn(ref, translation) ==
    [ar |-> RequestUrl(ref, "quran-uthmani"), tr |-> NoRequest]

\* The two requestUrl calls that are the arguments of Promise.all: both are
\* started before the await.
EditionLookups(ref, translation) ==
    [ar |-> RequestUrl(ref, "quran-uthmani"), tr |-> RequestUrl(ref, translation)]

\* Mutant of PromiseAll: the joint wait settles only when both have settled.
PromiseAllSettled(a, t) ==
    IF a.state = "pending" \/ t.state = "pending" \/ a.state = "none" \/ t.state = "none"
    THEN "pending"
    ELSE IF a.state = "rejected" \/ t.state = "rejected" THEN "rejected" ELSE "fulfilled"

\* Promise.all([a, t]): rejected as soon as one is rejected, fulfilled when both are.
PromiseAll(a, t) ==
    IF a.state = "rejected" \/ t.state = "rejected" THEN "rejected"
    ELSE IF a.state = "fulfilled" /\ t.state = "fulfilled" THEN "fulfilled"
    ELSE "pending"

\* if (randomJson.code !== 200) throw
RandomCodeOk(json) == json.code = HttpOk

\* Mutant of EditionCodesOk: only the original-language code is looked at.
EditionCodesArOnly(a, t) == a.code = HttpOk

\* if (arJson.code !== 200 || trJson.code !== 200) throw
EditionCodesOk(a, t) == a.code = HttpOk /\ t.code = HttpOk

----------------------------------------------------------------------------
(* The retry timer *)

\* Mutant of ScheduleRetry: the failure path registers no timer.
ScheduleNothing(ts, c) == ts

\* window.setTimeout(() => { if (container.isConnected) void renderVerse(); }, 5000)
\* registered by cycle c, whose container the callback closes over.
ScheduleRetry(ts, c) ==
    ts \cup {[cycle |-> c, delay |-> RetryDelayMs, elapsed |-> 0]}

\* Mutant of IsConnected: the callback does not look at the container.
IsConnectedAlways(c) == TRUE

\* container.isConnected for the container of cycle c: el is in the document
\* and no later renderVerse has emptied el.
IsConnected(c) == ~tornDown /\ c = cycle

\* Mutant of ClearTimeouts: unloading the cleanup children cancels nothing.
ClearNothing(ts) == ts

\* cleanup.onunload = () => window.clearTimeout(timeoutId), for every cleanup
\* child registered with ctx.
ClearTimeouts(ts) == {}

----------------------------------------------------------------------------
(* The original-language text and its verse number *)

\* What the remote source holds for a global index: the text, the chapter
\* and the number of the verse in its chapter (AyahData.text, surah.number,
\* numberInSurah).
Verse(n) ==
    CASE n = 1 -> [text |-> "text of 1:1", surah |-> 1, numberInSurah |-> 1]
      [] n = 500 -> [text |-> "text of 4:7", surah |-> 4, numberInSurah |-> 7]
      [] n = 777 -> [text |-> "text of 5:108", surah |-> 5, numberInSurah |-> 108]
      [] n = TotalVerses -> [text |-> "text of 114:6", surah |-> 114, numberInSurah |-> 6]

\* The characters "0".."9" and the table "\u0660..\u0669" of toArabicDigits,
\* each glyph written as its code point.
AsciiDigits == <<"0", "1", "2", "3", "4", "5", "6", "7", "8", "9">>
digits == <<"U+0660", "U+0661", "U+0662", "U+0663", "U+0664",
            "U+0665", "U+0666", "U+0667", "U+0668", "U+0669">>

\* Number.prototype.toString for an integer: its decimal characters, most
\* significant first, after a "-" when it is negative.
RECURSIVE NumberToString(_)
NumberToString(num) ==
    IF num < 0 THEN <<"-">> \o NumberToString(0 - num)
    ELSE IF num < 10 THEN <<AsciiDigits[num + 1]>>
    ELSE Append(NumberToString(num \div 10), AsciiDigits[(num % 10) + 1])

\* /\d/ matches the character.
IsDigitChar(d) == \E i \in 1..Len(AsciiDigits) : AsciiDigits[i] = d

\* parseInt(d) for a character that /\d/ matches.
ParseInt(d) == (CHOOSE i \in 1..Len(AsciiDigits) : AsciiDigits[i] = d) - 1

\* Mutant of GlyphOf: the table is read one place further.
GlyphOffByOne(d) ==
    IF ParseInt(d) + 2 \in 1..Len(digits) THEN digits[ParseInt(d) + 2] ELSE d

\* digits[parseInt(d)] ?? d, the table being indexed from 0.
GlyphOf(d) ==
    IF ParseInt(d) + 1 \in 1..Len(digits) THEN digits[ParseInt(d) + 1] ELSE d

\* num.toString().replace(/\d/g, (d) => digits[parseInt(d)] ?? d)
toArabicDigits(num) ==
    LET str == NumberToString(num)
    IN  [i \in 1..Len(str) |-> IF IsDigitChar(str[i]) THEN GlyphOf(str[i]) ELSE str[i]]

\* Mutant of ArabicSpan: the number comes before the glyph.
ArabicSpanNumberFirst(arData) ==
    <<arData.text>> \o toArabicDigits(arData.numberInSurah) \o <<" U+06DD">>

\* arData.text + ' \u06DD' + ayahNumberInArabic (lines 128-134)
ArabicSpan(arData) ==
    <<arData.text>> \o <<" U+06DD">> \o toArabicDigits(arData.numberInSurah)

----------------------------------------------------------------------------
(* renderVerse *)

\* Lines 84-99: el.empty(), a new container with header and skeletons, the
\* random draw and the reference lookup; the function then awaits.
StartRender ==
    /\ cycle' = cycle + 1
    /\ skeleton' = TRUE
    /\ content' = <<>>
    /\ arabicSpan' = <<>>
    /\ \E r \in Draws :
         /\ draw' = r
         /\ refReq' = RequestUrl(r, "")
    /\ reference' = 0
    /\ arReq' = NoRequest
    /\ trReq' = NoRequest
    /\ cardCalls' = cardCalls + 1
    /\ cardPc' = "awaitRef"

\* Mutant of FailCycle: from the second failure on no retry is registered.
FailCycleCapped ==
    /\ timers' = IF cycle < 2 THEN ScheduleRetry(timers, cycle) ELSE timers
    /\ cardPc' = "failed"

\* Lines 225-235: the catch block.
FailCycle ==
    /\ timers' = ScheduleRetry(timers, cycle)
    /\ cardPc' = "failed"

\* The parts created by lines 120-223 before a property of a missing object
\* is read, given the shapes of the two payloads.
PartsShown(a, t) ==
    IF a.shape = "noData" THEN <<>>
    ELSE IF t.shape = "noData" THEN <<"arabic">>
    ELSE IF t.shape = "noSurah" THEN <<"arabic", "translation">>
    ELSE <<"arabic", "translation", "footer">>

\* Lines 110-223 complete without a TypeError.
WellFormed(a, t) == a.shape = "full" /\ t.shape = "full"

NoLookup ==
    [state |-> "none", cycle |-> 0, tafsir |-> "", surah |-> 0, ayah |-> 0,
     json |-> [kind |-> "", ayahs |-> <<>>]]

\* A step that is not one of the click handler of the tafsir button: the
\* handler has issued or settled no lookup, opened no modal and raised no
\* notice in it.
NoCommentaryStep ==
    /\ lookup' = NoLookup
    /\ opened' = <<>>
    /\ cardNotices' = <<>>
    /\ UNCHANGED <<inFlight, disabled>>

\* The host calls the code block processor: line 238.
RenderBlock ==
    /\ cardPc = "unrendered"
    /\ ~tornDown
    /\ StartRender
    /\ UNCHANGED <<timers, tornDown, cleared, metaVars, digitVars>>
    /\ NoCommentaryStep

\* The reference lookup settles and renderVerse resumes at line 99.
RefResponse ==
    /\ cardPc = "awaitRef"
    /\ refReq.state = "pending"
    /\ \/ \* the request is rejected
          /\ refReq' = Rejected(refReq)
          /\ FailCycle
          /\ UNCHANGED <<reference, arReq, trReq, cardCalls>>
       \/ \E code \in {HttpOk} \cup ErrorCodes, shape \in RefShapes,
             n \in {draw} \cup Renumbered :
            LET json == Fulfilled(refReq, code, shape, n) IN
            /\ refReq' = json
            /\ IF RandomCodeOk(json) /\ shape = "full"
               THEN LET ref == LookupKey(draw, json)
                        both == EditionLookups(ref, settings.translation) IN
                    /\ reference' = ref
                    /\ arReq' = both.ar
                    /\ trReq' = both.tr
                    /\ cardCalls' = cardCalls + 2
                    /\ cardPc' = "awaitEditions"
                    /\ UNCHANGED timers
               ELSE /\ FailCycle
                    /\ UNCHANGED <<reference, arReq, trReq, cardCalls>>
    /\ UNCHANGED <<cycle, draw, skeleton, content, arabicSpan, tornDown, cleared, metaVars, digitVars>>
    /\ NoCommentaryStep

\* Lines 110-223, entered when Promise.all is fulfilled.
ShowVerse(a, t) ==
    IF EditionCodesOk(a, t)
    THEN /\ skeleton' = FALSE
         /\ content' = PartsShown(a, t)
         /\ arabicSpan' = IF a.shape = "full" THEN ArabicSpan(Verse(a.number)) ELSE <<>>
         /\ IF WellFormed(a, t)
            THEN cardPc' = "shown" /\ UNCHANGED timers
            ELSE FailCycle
    ELSE /\ FailCycle
         /\ UNCHANGED <<skeleton, content, arabicSpan>>

\* One of the two edition lookups settles; renderVerse resumes at line 105
\* when that settles Promise.all.
EditionSettles(a, t) ==
    /\ arReq' = a
    /\ trReq' = t
    /\ IF cardPc = "awaitEditions"
       THEN CASE PromiseAll(a, t) = "rejected" ->
                    FailCycle /\ UNCHANGED <<skeleton, content, arabicSpan>>
              [] PromiseAll(a, t) = "fulfilled" -> ShowVerse(a, t)
              [] OTHER -> UNCHANGED <<cardPc, skeleton, content, arabicSpan, timers>>
       ELSE UNCHANGED <<cardPc, skeleton, content, arabicSpan, timers>>
    /\ UNCHANGED <<cycle, draw, reference, refReq, tornDown, cardCalls, cleared, metaVars, digitVars>>
    /\ NoCommentaryStep

ArResponse ==
    /\ arReq.state = "pending"
    /\ \/ EditionSettles(Rejected(arReq), trReq)
       \/ \E code \in {HttpOk} \cup ErrorCodes, shape \in ArShapes :
            EditionSettles(Fulfilled(arReq, code, shape, arReq.key), trReq)

TrResponse ==
    /\ trReq.state = "pending"
    /\ \/ EditionSettles(arReq, Rejected(trReq))
       \/ \E code \in {HttpOk} \cup ErrorCodes, shape \in TrShapes :
            EditionSettles(arReq, Fulfilled(trReq, code, shape, trReq.key))

\* Mutant of ReloadClick: the button is part of the card's header and takes
\* a click whenever the card has been rendered.
ReloadClickAnytime ==
    /\ cardPc # "unrendered"
    /\ ~tornDown
    /\ cycle < MaxCycles
    /\ StartRender
    /\ UNCHANGED <<timers, tornDown, cleared, metaVars, digitVars>>
    /\ NoCommentaryStep

\* Lines 159-161: the reload button of the shown verse is clicked.
ReloadClick ==
    /\ cardPc = "shown"
    /\ ~tornDown
    /\ cycle < MaxCycles
    /\ StartRender
    /\ UNCHANGED <<timers, tornDown, cleared, metaVars, digitVars>>
    /\ NoCommentaryStep

\* Lines 228-230: a timer comes due and its callback runs.
RetryFire ==
    \E t \in timers :
        /\ t.elapsed >= t.delay
        /\ timers' = timers \ {t}
        /\ IF IsConnected(t.cycle)
           THEN cycle < MaxCycles /\ StartRender
           ELSE UNCHANGED <<cardPc, cycle, draw, reference, refReq, arReq, trReq,
                            skeleton, content, arabicSpan, cardCalls>>
        /\ UNCHANGED <<tornDown, cleared, metaVars, digitVars>>
        /\ NoCommentaryStep

\* Time passes.
Tick ==
    /\ \E t \in timers : t.elapsed < t.delay
    /\ timers' = {[t EXCEPT !.elapsed = Min(t.elapsed + TickMs, t.delay)] : t \in timers}
    /\ UNCHANGED <<cardPc, cycle, draw, reference, refReq, arReq, trReq, skeleton,
                   content, arabicSpan, tornDown, cardCalls, cleared, metaVars, digitVars>>
    /\ NoCommentaryStep

\* The host removes the block from the document: el is detached and the
\* children added to ctx are unloaded (lines 232-234).
Teardown ==
    /\ cardPc # "unrendered"
    /\ ~tornDown
    /\ tornDown' = TRUE
    /\ timers' = ClearTimeouts(timers)
    /\ cleared' = cleared + Cardinality(timers \ ClearTimeouts(timers))
    /\ UNCHANGED <<cardPc, cycle, draw, reference, refReq, arReq, trReq, skeleton,
                   content, arabicSpan, cardCalls, metaVars, digitVars>>
    /\ NoCommentaryStep

----------------------------------------------------------------------------
(* The commentary lookup: the click handler of the tafsir button *)

\* requestUrl(`.../tafsir/${this.settings.tafsir}/${surahNum}.json`) made by
\* the button of cycle c for verse ayah of chapter surah.
TafsirRequest(c, tafsir, surah, ayah) ==
    [NoLookup EXCEPT !.state = "pending", !.cycle = c, !.tafsir = tafsir,
                     !.surah = surah, !.ayah = ayah]

CdnTafsirAyah(surah, ayah) == [ayah |-> ayah, surah |-> surah, text |-> "commentary"]

\* Bodies the CDN may answer with: null, an object without ayahs, an object
\* whose ayahs is not an array, and objects whose ayahs is an array that is
\* empty, holds the verse, or holds only another verse.
SurahPayloads(surah, ayah) ==
    {[kind |-> "null", ayahs |-> <<>>],
     [kind |-> "noAyahs", ayahs |-> <<>>],
     [kind |-> "ayahsNotArray", ayahs |-> <<>>],
     [kind |-> "ayahsArray", ayahs |-> <<>>],
     [kind |-> "ayahsArray", ayahs |-> <<CdnTafsirAyah(surah, ayah + 1)>>],
     [kind |-> "ayahsArray",
      ayahs |-> <<CdnTafsirAyah(surah, ayah + 1), CdnTafsirAyah(surah, ayah)>>]}

\* tafsirJson && tafsirJson.ayahs && Array.isArray(tafsirJson.ayahs)
IsSurahResponse(json) == json.kind = "ayahsArray"

\* tafsirJson.ayahs.find(a => a.ayah === ayahNum): <<the entry>> or <<>>.
FindAyah(ayahs, ayahNum) ==
    LET hits == {i \in 1..Len(ayahs) : ayahs[i].ayah = ayahNum}
    IN  IF hits = {} THEN <<>> ELSE <<ayahs[CHOOSE i \in hits : \A j \in hits : i <= j]>>

NoticeNoTafsir == "No tafsir edition selected. Please select one in plugin settings."
NoticeCommentaryFailed ==
    "Failed to load commentary. Check if a valid tafsir edition is selected."

\* Mutant of NoticeNotFound: the missing entry is reported as a failed load.
NoticeNotFoundAsFailure(ayahNum, surahNum) == NoticeCommentaryFailed

\* new Notice(`Tafsir not found for Ayah ${ayahNum} in Surah ${surahNum}.`)
NoticeNotFound(ayahNum, surahNum) ==
    "Tafsir not found for Ayah " \o ToString(ayahNum) \o " in Surah "
        \o ToString(surahNum) \o "."

\* new TafsirModal(this.app, targetAyahTafsir, this.settings.tafsirName).open()
TafsirModal(entry, tafsirName) == [tafsirAyahData |-> entry, tafsirName |-> tafsirName]

\* Mutant of TafsirClick: the handler renders the card anew when the lookup
\* is sent.
TafsirClickRerenders ==
    /\ cardPc = "shown"
    /\ ~tornDown
    /\ cycle \notin disabled
    /\ cycle < MaxCycles
    /\ settings.tafsir # ""
    /\ opened' = <<>>
    /\ cardNotices' = <<>>
    /\ lookup' = TafsirRequest(cycle, settings.tafsir, Verse(arReq.number).surah,
                               Verse(arReq.number).numberInSurah)
    /\ inFlight' = inFlight \cup {lookup'}
    /\ disabled' = disabled \cup {cycle}
    /\ StartRender
    /\ UNCHANGED <<timers, tornDown, cleared, metaVars, digitVars>>

\* The tafsir button of the shown verse is clicked (lines 171-187); a
\* disabled button takes no click.
TafsirClick ==
    /\ cardPc = "shown"
    /\ ~tornDown
    /\ cycle \notin disabled
    /\ opened' = <<>>
    /\ IF settings.tafsir = ""
       THEN /\ cardNotices' = <<NoticeNoTafsir>>
            /\ lookup' = [NoLookup EXCEPT !.state = "skipped", !.cycle = cycle]
            /\ UNCHANGED <<inFlight, disabled>>
       ELSE /\ cardNotices' = <<>>
            /\ lookup' = TafsirRequest(cycle, settings.tafsir, Verse(arReq.number).surah,
                                       Verse(arReq.number).numberInSurah)
            /\ inFlight' = inFlight \cup {lookup'}
            /\ disabled' = disabled \cup {cycle}
    /\ UNCHANGED <<cardPc, cycle, draw, reference, refReq, arReq, trReq, skeleton,
                   content, arabicSpan, timers, tornDown, cardCalls, cleared, metaVars, digitVars>>

\* The lookup settles and the handler resumes (lines 187-207).
TafsirResponse ==
    \E sent \in inFlight :
       /\ inFlight' = inFlight \ {sent}
       /\ \/ /\ lookup' = [sent EXCEPT !.state = "rejected"]
             /\ cardNotices' = <<NoticeCommentaryFailed>>
             /\ opened' = <<>>
          \/ \E json \in SurahPayloads(sent.surah, sent.ayah) :
               /\ lookup' = [sent EXCEPT !.state = "fulfilled", !.json = json]
               /\ IF IsSurahResponse(json)
                  THEN LET targetAyahTafsir == FindAyah(json.ayahs, sent.ayah) IN
                       IF targetAyahTafsir # <<>>
                       THEN /\ opened' = <<TafsirModal(targetAyahTafsir[1], settings.tafsirName)>>
                            /\ cardNotices' = <<>>
                       ELSE /\ opened' = <<>>
                            /\ cardNotices' = <<NoticeNotFound(sent.ayah, sent.surah)>>
                  ELSE /\ opened' = <<>>
                       /\ cardNotices' = <<NoticeCommentaryFailed>>
       /\ disabled' = disabled \ {sent.cycle}
       /\ UNCHANGED <<cardPc, cycle, draw, reference, refReq, arReq, trReq, skeleton,
                      content, arabicSpan, timers, tornDown, cardCalls, cleared,
                      metaVars, digitVars>>

----------------------------------------------------------------------------
(* The remote catalogs the settings tab reads *)

\* The payload of GET /edition/language that passes isLanguageResponse.
LanguageLists == {<<en, ar>>}

Edition(id, lang, name, format, type) ==
    [identifier |-> id, language |-> lang, name |-> name, format |-> format, type |-> type]

\* The payload of GET /edition/language/{code} that passes isEditionResponse.
RemoteEditions(code) ==
    CASE code = en ->
           <<Edition("en.ahmedali", en, "Ahmed Ali", "text", "translation"),
             Edition("en.itani", en, "Clear Quran", "text", "translation"),
             Edition("en.walk", en, "Ibrahim Walk", "audio", "versebyverse")>>
      [] code = ar ->
           <<Edition("ar.muyassar", ar, "King Fahad Quran Complex", "text", "tafsir"),
             Edition("ar.alafasy", ar, "Alafasy", "audio", "versebyverse")>>
      [] OTHER -> <<>>

CdnTafsirEdition(slug, name, languageName) ==
    [slug |-> slug, name |-> name, language_name |-> languageName]

IbnKathir ==
    CdnTafsirEdition("en-tafisr-ibn-kathir", "Tafsir Ibn Kathir (abridged)", ToLowerCase(English))
Jalalayn == CdnTafsirEdition("en-al-jalalayn", "Al-Jalalayn", ToLowerCase(English))
Tabari == CdnTafsirEdition("ar-tafsir-al-tabari", "Tafsir al-Tabari", ToLowerCase(Arabic))
BerTafsir == CdnTafsirEdition("ber-tafsir", "Tafsir n Tmazight", ber)

\* Payloads of tafsir/editions.json that pass isCdnTafsirEditionArray.
TafsirPayloads == {<<>>, <<IbnKathir, Jalalayn, Tabari>>, <<Tabari, BerTafsir>>}

\* A request is rejected, its payload fails the type guard, or it passes.
Outcomes == {"reject", "malformed", "ok"}

----------------------------------------------------------------------------
(* The settings tab: its state as one record, and its procedures as         *)
(* functions of that record                                                 *)

Procs == {"refresh", "langChange", "tafsirLangChange", "reset"}

\* The locals of a handler that holds none.
NoLocals == [language |-> <<>>, tafsirJson |-> <<>>]

\* The state a step of the settings tab starts from: it has raised no notice
\* and left no rejection uncaught yet.
Tab ==
    [settings |-> settings, stored |-> stored, languages |-> languages,
     tafsirLanguages |-> tafsirLanguages, editions |-> editions,
     tafsirEditions |-> tafsirEditions, isLoadingMetadata |-> isLoadingMetadata,
     ui |-> ui, notices |-> <<>>, unhandled |-> FALSE]

Becomes(T) ==
    /\ settings' = T.settings
    /\ stored' = T.stored
    /\ languages' = T.languages
    /\ tafsirLanguages' = T.tafsirLanguages
    /\ editions' = T.editions
    /\ tafsirEditions' = T.tafsirEditions
    /\ isLoadingMetadata' = T.isLoadingMetadata
    /\ notices' = T.notices
    /\ ui' = T.ui
    /\ unhandled' = T.unhandled

\* Mutant of SaveSettings: nothing is written.
SaveNothing(T) == T

\* QuranPlugin.saveSettings: saveData(this.settings) writes the record as it
\* is at the call; the caller resumes in a later step.
SaveSettings(T) == [T EXCEPT !.stored = <<T.settings>>]

\* Object.assign({}, target, source): every key of either, the value of
\* source where it has the key.
ObjectAssign(target, source) ==
    [k \in DOMAIN target \cup DOMAIN source |->
        IF k \in DOMAIN source THEN source[k] ELSE target[k]]

\* Mutant of LoadSettings: only the keys of DEFAULT_SETTINGS are read.
LoadKnownKeys(data) ==
    IF data = <<>> THEN DEFAULT_SETTINGS
    ELSE [k \in DOMAIN DEFAULT_SETTINGS |->
             IF k \in DOMAIN data[1] THEN data[1][k] ELSE DEFAULT_SETTINGS[k]]

\* QuranPlugin.loadSettings: Object.assign({}, DEFAULT_SETTINGS, loadData());
\* loadData() is null when there is no data.json, and assign skips null.
LoadSettings(data) ==
    IF data = <<>> THEN DEFAULT_SETTINGS ELSE ObjectAssign(DEFAULT_SETTINGS, data[1])

ShowNotice(T, msg) == [T EXCEPT !.notices = Append(@, msg)]

\* The part of display() that touches state: the options of the four
\* dropdowns are rebuilt, and building the tafsir edition dropdown repairs
\* the configured tafsir (lines 1125-1152).
Display(T) ==
    LET first == T.tafsirEditions[1]
        T1 == IF T.tafsirEditions # <<>>
              THEN IF T.settings.tafsir = "" \/ T.settings.tafsir \notin Ids(T.tafsirEditions)
                   THEN SaveSettings([T EXCEPT !.settings.tafsir = first.identifier,
                                               !.settings.tafsirName = first.name])
                   ELSE T
              ELSE IF T.settings.tafsir # ""
                   THEN SaveSettings([T EXCEPT !.settings.tafsir = "",
                                               !.settings.tafsirName = ""])
                   ELSE T
    IN  [T1 EXCEPT !.ui = [languages |-> Codes(T.languages),
                           editions |-> Ids(T.editions),
                           tafsirLanguages |-> Codes(T.tafsirLanguages),
                           tafsirEditions |-> Ids(T.tafsirEditions)]]

\* fetchLanguages, lines 810-815.
LanguageEntries(list) ==
    SortByName([i \in 1..Len(list) |-> [code |-> list[i], name |-> getFullLanguageName(list[i])]])

\* fetchTranslationEditions, line 833.
IsTextTranslation(e) == e.format = "text" /\ e.type = "translation"
TextTranslations(payload) == SelectSeq(payload, IsTextTranslation)

\* fetchAndProcessTafsirs, line 857: the code of the first language whose name
\* matches without regard to case, else the lower-cased name itself.
TafsirLanguageCode(langs, langName) ==
    LET hits == {i \in 1..Len(langs) : ToLowerCase(langs[i].name) = ToLowerCase(langName)}
        found == langs[CHOOSE i \in hits : \A j \in hits : i <= j]
    IN  IF hits # {} /\ found.code # <<>> THEN found.code ELSE ToLowerCase(langName)

\* fetchAndProcessTafsirs, lines 855-859.
DerivedTafsirLanguages(payload, langs) ==
    LET names == Unique([i \in 1..Len(payload) |-> payload[i].language_name])
    IN  SortByName([i \in 1..Len(names) |->
                       [code |-> TafsirLanguageCode(langs, names[i]),
                        name |-> Capitalize(names[i])]])

\* Mutant of FirstTafsirLanguage: the last entry is taken.
LastTafsirLanguage(tl) == IF Len(tl) > 0 THEN tl[Len(tl)].code ELSE en

\* fetchAndProcessTafsirs, line 864.
FirstTafsirLanguage(tl) == IF Len(tl) > 0 THEN tl[1].code ELSE en

\* fetchAndProcessTafsirs, lines 869-879.
FilterTafsirs(payload, code) ==
    LET Matches(t) ==
            ToLowerCase(t.language_name) = ToLowerCase(getFullLanguageName(code))
        kept == SelectSeq(payload, Matches)
    IN  [i \in 1..Len(kept) |->
            Edition(kept[i].slug, kept[i].language_name, kept[i].name, "text", "tafsir")]

\* Mutant of DefaultTafsir: the last entry of the filtered list is taken.
DefaultTafsirLast(te) == te[Len(te)]

\* fetchAndProcessTafsirs, lines 884-885.
DefaultTafsir(te) == te[1]

\* fetchAndProcessTafsirs, line 888.
TafsirNameOf(te, id) ==
    LET hits == {i \in 1..Len(te) : te[i].identifier = id}
        found == te[CHOOSE i \in hits : \A j \in hits : i <= j]
    IN  IF hits # {} /\ found.name # "" THEN found.name ELSE id

\* fetchAndProcessTafsirs, lines 861-866: the record after the reconciliation
\* of the tafsir language, and whether saveSettings is awaited.
ReconcileTafsirLanguage(T, payload) ==
    LET tl == DerivedTafsirLanguages(payload, T.languages)
        T1 == [T EXCEPT !.tafsirLanguages = tl]
    IN  IF T.settings.tafsirLanguage \notin Codes(tl)
        THEN [tab |-> SaveSettings([T1 EXCEPT !.settings.tafsirLanguage = FirstTafsirLanguage(tl)]),
              awaits |-> TRUE]
        ELSE [tab |-> T1, awaits |-> FALSE]

\* fetchAndProcessTafsirs, lines 868-894: the record after the filtering and
\* the selection of the tafsir edition, and whether saveSettings is awaited.
SelectTafsir(T, payload) ==
    LET te == FilterTafsirs(payload, T.settings.tafsirLanguage)
        T1 == [T EXCEPT !.tafsirEditions = te]
    IN  IF Len(te) > 0
        THEN IF T.settings.tafsir = "" \/ T.settings.tafsir \notin Ids(te)
             THEN [tab |-> SaveSettings([T1 EXCEPT !.settings.tafsir = DefaultTafsir(te).identifier,
                                                   !.settings.tafsirName = DefaultTafsir(te).name]),
                   awaits |-> TRUE]
             ELSE [tab |-> [T1 EXCEPT !.settings.tafsirName = TafsirNameOf(te, T.settings.tafsir)],
                   awaits |-> FALSE]
        ELSE [tab |-> SaveSettings([T1 EXCEPT !.settings.tafsir = "", !.settings.tafsirName = ""]),
              awaits |-> TRUE]

NoticeLanguages == "Failed to fetch languages. Check your internet connection."
NoticeTranslations == "Failed to fetch translations. Check your internet connection."
NoticeTafsirs == "Failed to fetch tafsir editions. Check your internet connection."
NoticeUnexpected == "An unexpected error occurred. Please check the console for details."
NoticeAutoSelect == "Failed to auto-select translation. Check your internet connection."

\* Mutant of RefreshFails: the flag is cleared at the end of the try block
\* only.
RefreshFailsHoldingFlag(T) == Display(ShowNotice(T, NoticeUnexpected))

\* fetchMetadata, lines 796-802: catch and finally.
RefreshFails(T) ==
    Display([ShowNotice(T, NoticeUnexpected) EXCEPT !.isLoadingMetadata = FALSE])

\* fetchMetadata, lines 799-802: finally, after the three steps succeeded.
RefreshEnds(T) == Display([T EXCEPT !.isLoadingMetadata = FALSE])

\* What follows fetchAndProcessTafsirs in its caller when it returns...
TafsirsReturn(p, T) ==
    IF p = "refresh" THEN RefreshEnds(T) ELSE Display(T)

\* ... and when it throws: fetchMetadata catches, the tafsir language handler
\* (lines 1109-1114) does not.
TafsirsThrow(p, T) ==
    IF p = "refresh" THEN RefreshFails(T) ELSE [T EXCEPT !.unhandled = TRUE]

\* The four cached catalogs of the settings tab (lines 777-780).
Catalogs == <<languages, editions, tafsirLanguages, tafsirEditions>>

\* Mutant of Busy: the flag is not looked at.
NeverBusy(flag) == FALSE

\* fetchMetadata, line 789.
Busy(flag) == flag

----------------------------------------------------------------------------
(* fetchMetadata and its three steps *)

\* fetchMetadata is invoked (main.ts line 80, or any other caller of the
\* public method): lines 788-793 and fetchLanguages up to its await.
FetchMetadata ==
    /\ UNCHANGED <<userOps, remember>>
    /\ ran' = "fetchMetadata"
    /\ IF Busy(isLoadingMetadata)
       THEN /\ Becomes(Tab)
            /\ requests' = <<>>
            /\ UNCHANGED <<pc, atStart>>
       ELSE /\ Becomes([Tab EXCEPT !.isLoadingMetadata = TRUE])
            /\ pc' = [pc EXCEPT !["refresh"] = "languages"]
            /\ requests' = <<"languages">>
            /\ atStart' = IF remember THEN <<Catalogs>> ELSE <<>>
    /\ UNCHANGED <<locals, cardVars>>

\* fetchLanguages resumes (lines 807-823); on success fetchMetadata goes on
\* to fetchTranslationEditions, which builds its URL from settings.language
\* and awaits its request (lines 828-829).
LanguagesResponse ==
    /\ UNCHANGED userOps
    /\ pc["refresh"] = "languages"
    /\ \E outcome \in Outcomes :
         IF outcome = "ok"
         THEN \E list \in LanguageLists :
                /\ Becomes([Tab EXCEPT !.languages = LanguageEntries(list)])
                /\ pc' = [pc EXCEPT !["refresh"] = "editions"]
                /\ locals' = [locals EXCEPT !["refresh"].language = settings.language]
                /\ requests' = <<"editions">>
         ELSE /\ Becomes(RefreshFails(ShowNotice(Tab, NoticeLanguages)))
              /\ pc' = [pc EXCEPT !["refresh"] = "idle"]
              /\ requests' = <<>>
              /\ UNCHANGED locals
    /\ ran' = "refresh"
    /\ UNCHANGED cardVars
    /\ atStart' = IF pc'["refresh"] = "idle" THEN <<>> ELSE atStart
    /\ UNCHANGED remember

\* fetchTranslationEditions resumes in fetchMetadata (lines 830-841); on
\* success fetchMetadata goes on to fetchAndProcessTafsirs, which awaits its
\* request (lines 846-847).
EditionsResponse ==
    /\ UNCHANGED userOps
    /\ pc["refresh"] = "editions"
    /\ \E outcome \in Outcomes :
         IF outcome = "ok"
         THEN /\ Becomes([Tab EXCEPT !.editions =
                            TextTranslations(RemoteEditions(locals["refresh"].language))])
              /\ pc' = [pc EXCEPT !["refresh"] = "tafsirs"]
              /\ requests' = <<"tafsirs">>
         ELSE /\ Becomes(RefreshFails(ShowNotice(Tab, NoticeTranslations)))
              /\ pc' = [pc EXCEPT !["refresh"] = "idle"]
              /\ requests' = <<>>
    /\ locals' = [locals EXCEPT !["refresh"] = NoLocals]
    /\ ran' = "refresh"
    /\ UNCHANGED cardVars
    /\ atStart' = IF pc'["refresh"] = "idle" THEN <<>> ELSE atStart
    /\ UNCHANGED remember

TafsirProcs == {"refresh", "tafsirLangChange"}

\* Lines 868-901 in handler p, from the filtering on.
SelectAndGoOn(p, T, payload) ==
    LET r == SelectTafsir(T, payload) IN
    /\ locals' = [locals EXCEPT ![p] = NoLocals]
    /\ IF r.awaits
       THEN /\ Becomes(r.tab)
            /\ pc' = [pc EXCEPT ![p] = "tafsirSave2"]
       ELSE /\ Becomes(TafsirsReturn(p, r.tab))
            /\ pc' = [pc EXCEPT ![p] = "idle"]

\* fetchAndProcessTafsirs resumes in handler p after its request (lines
\* 848-901), up to its next await or its end.
TafsirsResponse(p) ==
    /\ UNCHANGED userOps
    /\ pc[p] = "tafsirs"
    /\ \E outcome \in Outcomes :
         IF outcome = "ok"
         THEN \E payload \in TafsirPayloads :
                LET r == ReconcileTafsirLanguage(Tab, payload) IN
                IF r.awaits
                THEN /\ Becomes(r.tab)
                     /\ pc' = [pc EXCEPT ![p] = "tafsirSave1"]
                     /\ locals' = [locals EXCEPT ![p].tafsirJson = payload]
                ELSE SelectAndGoOn(p, r.tab, payload)
         ELSE /\ Becomes(TafsirsThrow(p, ShowNotice(Tab, NoticeTafsirs)))
              /\ pc' = [pc EXCEPT ![p] = "idle"]
              /\ UNCHANGED locals
    /\ ran' = p
    /\ requests' = <<>>
    /\ UNCHANGED cardVars
    /\ atStart' = IF p = "refresh" /\ pc'[p] = "idle" THEN <<>> ELSE atStart
    /\ UNCHANGED remember

\* fetchAndProcessTafsirs resumes after the saveSettings of line 865.
TafsirLanguageSaved(p) ==
    /\ UNCHANGED userOps
    /\ pc[p] = "tafsirSave1"
    /\ SelectAndGoOn(p, Tab, locals[p].tafsirJson)
    /\ ran' = p
    /\ requests' = <<>>
    /\ UNCHANGED cardVars
    /\ atStart' = IF p = "refresh" /\ pc'[p] = "idle" THEN <<>> ELSE atStart
    /\ UNCHANGED remember

\* fetchAndProcessTafsirs resumes after the saveSettings of line 886 or 893
\* and returns to its caller.
TafsirSaved(p) ==
    /\ UNCHANGED userOps
    /\ pc[p] = "tafsirSave2"
    /\ Becomes(TafsirsReturn(p, Tab))
    /\ pc' = [pc EXCEPT ![p] = "idle"]
    /\ ran' = p
    /\ requests' = <<>>
    /\ UNCHANGED <<locals, cardVars>>
    /\ atStart' = IF p = "refresh" /\ pc'[p] = "idle" THEN <<>> ELSE atStart
    /\ UNCHANGED remember

----------------------------------------------------------------------------
(* display() and the handlers of the dropdowns *)

\* The host shows the settings tab: display().
OpenSettingsTab ==
    /\ UNCHANGED <<userOps, remember, atStart>>
    /\ Becomes(Display(Tab))
    /\ ran' = "display"
    /\ requests' = <<>>
    /\ UNCHANGED <<pc, locals, cardVars>>

\* Translation language onChange, lines 1052-1057, up to the await of
\* fetchTranslationEditions' request.
TranslationLanguageChange ==
    /\ userOps < MaxUserOps
    /\ userOps' = userOps + 1
    /\ pc["langChange"] = "idle"
    /\ \E val \in ui.languages :
         /\ Becomes([Tab EXCEPT !.settings.language = val, !.editions = <<>>])
         /\ locals' = [locals EXCEPT !["langChange"].language = val]
    /\ pc' = [pc EXCEPT !["langChange"] = "editions"]
    /\ ran' = "langChange"
    /\ requests' = <<"editions">>
    /\ UNCHANGED cardVars
    /\ UNCHANGED <<remember, atStart>>

\* The handler resumes with the answer (lines 830-841, 1058-1066), up to the
\* await of saveSettings.
TranslationEditionsFetched ==
    /\ UNCHANGED <<userOps, remember, atStart>>
    /\ pc["langChange"] = "editions"
    /\ \E outcome \in Outcomes :
         IF outcome = "ok"
         THEN LET eds == TextTranslations(RemoteEditions(locals["langChange"].language))
                  T1 == [Tab EXCEPT !.editions = eds]
              IN  Becomes(SaveSettings(
                      IF Len(eds) > 0
                      THEN [T1 EXCEPT !.settings.translation = eds[1].identifier]
                      ELSE T1))
         ELSE Becomes(SaveSettings(
                  ShowNotice(ShowNotice(Tab, NoticeTranslations), NoticeAutoSelect)))
    /\ pc' = [pc EXCEPT !["langChange"] = "save"]
    /\ locals' = [locals EXCEPT !["langChange"] = NoLocals]
    /\ ran' = "langChange"
    /\ requests' = <<>>
    /\ UNCHANGED cardVars

\* The handler resumes after saveSettings: line 1067.
TranslationLanguageSaved ==
    /\ UNCHANGED <<userOps, remember, atStart>>
    /\ pc["langChange"] = "save"
    /\ Becomes(Display(Tab))
    /\ pc' = [pc EXCEPT !["langChange"] = "idle"]
    /\ ran' = "langChange"
    /\ requests' = <<>>
    /\ UNCHANGED <<locals, cardVars>>

\* Translation edition onChange, lines 1085-1088.
TranslationEditionChange ==
    /\ userOps < MaxUserOps
    /\ userOps' = userOps + 1
    /\ \E val \in ui.editions :
         Becomes(SaveSettings([Tab EXCEPT !.settings.translation = val]))
    /\ ran' = "editionChange"
    /\ requests' = <<>>
    /\ UNCHANGED <<pc, locals, cardVars>>
    /\ UNCHANGED <<remember, atStart>>

\* Tafsir language onChange, lines 1109-1111, up to the await of saveSettings.
TafsirLanguageChange ==
    /\ userOps < MaxUserOps
    /\ userOps' = userOps + 1
    /\ pc["tafsirLangChange"] = "idle"
    /\ \E val \in ui.tafsirLanguages :
         Becomes(SaveSettings([Tab EXCEPT !.settings.tafsirLanguage = val]))
    /\ pc' = [pc EXCEPT !["tafsirLangChange"] = "save"]
    /\ ran' = "tafsirLangChange"
    /\ requests' = <<>>
    /\ UNCHANGED <<locals, cardVars>>
    /\ UNCHANGED <<remember, atStart>>

\* The handler resumes after saveSettings and calls fetchAndProcessTafsirs,
\* which awaits its request: lines 1112, 846-847.
TafsirLanguageChangeFetches ==
    /\ UNCHANGED <<userOps, remember, atStart>>
    /\ pc["tafsirLangChange"] = "save"
    /\ Becomes(Tab)
    /\ pc' = [pc EXCEPT !["tafsirLangChange"] = "tafsirs"]
    /\ ran' = "tafsirLangChange"
    /\ requests' = <<"tafsirs">>
    /\ UNCHANGED <<locals, cardVars>>

\* Tafsir edition onChange, lines 1138-1142.
TafsirEditionChange ==
    /\ userOps < MaxUserOps
    /\ userOps' = userOps + 1
    /\ \E val \in ui.tafsirEditions :
         Becomes(SaveSettings([Tab EXCEPT !.settings.tafsir = val,
                                          !.settings.tafsirName = TafsirNameOf(tafsirEditions, val)]))
    /\ ran' = "tafsirEditionChange"
    /\ requests' = <<>>
    /\ UNCHANGED <<pc, locals, cardVars>>
    /\ UNCHANGED <<remember, atStart>>

----------------------------------------------------------------------------
(* The appearance settings and the reload of the plugin *)

\* The options of the font dropdown (lines 992-993).
FontOptions == {"\"Noto Naskh Arabic\"", "\"Amiri Quran\""}
\* Sample positions of the font size slider, in rem (line 977).
SliderValues == {1, 5}
\* Sample values of the colour picker.
Colors == {"#112233"}

\* Font size slider onChange, lines 980-984.
FontSizeChange ==
    /\ \E value \in SliderValues :
         Becomes(SaveSettings([Tab EXCEPT !.settings.fontSize = ToString(value) \o "rem"]))
    /\ ran' = "fontSizeChange"
    /\ requests' = <<>>
    /\ UNCHANGED <<pc, locals, userOps, remember, atStart, cardVars>>

\* Font dropdown onChange, lines 995-999.
FontChange ==
    /\ \E value \in FontOptions :
         Becomes(SaveSettings([Tab EXCEPT !.settings.font = value]))
    /\ ran' = "fontChange"
    /\ requests' = <<>>
    /\ UNCHANGED <<pc, locals, userOps, remember, atStart, cardVars>>

\* Background colour picker onChange, lines 1015-1018.
BackgroundColorChange ==
    /\ \E value \in Colors :
         Becomes(SaveSettings([Tab EXCEPT !.settings.backgroundColor = value]))
    /\ ran' = "backgroundColorChange"
    /\ requests' = <<>>
    /\ UNCHANGED <<pc, locals, userOps, remember, atStart, cardVars>>

\* Background reset button onClick, lines 1008-1012, up to the await of
\* saveSettings.
BackgroundColorReset ==
    /\ pc["reset"] = "idle"
    /\ Becomes(SaveSettings([Tab EXCEPT !.settings.backgroundColor =
                                           DEFAULT_SETTINGS.backgroundColor]))
    /\ pc' = [pc EXCEPT !["reset"] = "save"]
    /\ ran' = "reset"
    /\ requests' = <<>>
    /\ UNCHANGED <<locals, userOps, remember, atStart, cardVars>>

\* The handler resumes after saveSettings: display(), line 1011.
BackgroundColorResetSaved ==
    /\ pc["reset"] = "save"
    /\ Becomes(Display(Tab))
    /\ pc' = [pc EXCEPT !["reset"] = "idle"]
    /\ ran' = "reset"
    /\ requests' = <<>>
    /\ UNCHANGED <<locals, userOps, remember, atStart, cardVars>>

\* The plugin is started again while no handler is in flight: a new plugin
\* object and a new settings tab, and loadSettings reads data.json (main.ts
\* lines 74, 262-264).
Restart ==
    /\ \A p \in Procs : pc[p] = "idle"
    /\ Becomes([Tab EXCEPT !.settings = LoadSettings(stored),
                           !.ui = [languages |-> {}, editions |-> {},
                                   tafsirLanguages |-> {}, tafsirEditions |-> {}]])
    /\ ran' = "onload"
    /\ requests' = <<>>
    /\ UNCHANGED <<pc, locals, userOps, remember, atStart, cardVars>>

----------------------------------------------------------------------------
(* The specifications *)

InitCard ==
    /\ cardPc = "unrendered"
    /\ cycle = 0
    /\ draw = 0
    /\ reference = 0
    /\ refReq = NoRequest
    /\ arReq = NoRequest
    /\ trReq = NoRequest
    /\ skeleton = FALSE
    /\ content = <<>>
    /\ timers = {}
    /\ tornDown = FALSE
    /\ cardCalls = 0
    /\ cleared = 0
    /\ lookup = NoLookup
    /\ inFlight = {}
    /\ disabled = {}
    /\ opened = <<>>
    /\ cardNotices = <<>>
    /\ arabicSpan = <<>>
    /\ digitsArg = 0
    /\ digitsResult = <<>>

\* The plugin after loadSettings (main.ts line 74) and the construction of the
\* settings tab (settings.ts lines 776-786), with no data.json yet.
InitMeta ==
    /\ stored = <<>>
    /\ settings = LoadSettings(<<>>)
    /\ languages = <<>>
    /\ tafsirLanguages = <<>>
    /\ editions = <<>>
    /\ tafsirEditions = <<>>
    /\ isLoadingMetadata = FALSE
    /\ ui = [languages |-> {}, editions |-> {}, tafsirLanguages |-> {}, tafsirEditions |-> {}]
    /\ pc = [p \in Procs |-> "idle"]
    /\ locals = [p \in Procs |-> NoLocals]
    /\ userOps = 0
    /\ atStart = <<>>
    /\ ran = "onload"
    /\ requests = <<>>
    /\ notices = <<>>
    /\ unhandled = FALSE

\* No history is kept.
Init == InitCard /\ InitMeta /\ remember = FALSE

\* The same state, with the history of the pass in flight kept.
InitPass == InitCard /\ InitMeta /\ remember = TRUE

NextCard ==
    \/ RenderBlock
    \/ RefResponse
    \/ ArResponse
    \/ TrResponse
    \/ ReloadClick
    \/ RetryFire
    \/ Tick
    \/ Teardown

NextMeta ==
    \/ FetchMetadata
    \/ LanguagesResponse
    \/ EditionsResponse
    \/ \E p \in TafsirProcs : TafsirsResponse(p)
    \/ \E p \in TafsirProcs : TafsirLanguageSaved(p)
    \/ \E p \in TafsirProcs : TafsirSaved(p)
    \/ OpenSettingsTab
    \/ TranslationLanguageChange
    \/ TranslationEditionsFetched
    \/ TranslationLanguageSaved
    \/ TranslationEditionChange
    \/ TafsirLanguageChange
    \/ TafsirLanguageChangeFetches
    \/ TafsirEditionChange

\* One verse card with the settings left alone.
SpecCard == Init /\ [][NextCard]_vars

\* The card with time passing and due timer callbacks run by the host.
SpecCardFair == SpecCard /\ WF_vars(Tick) /\ WF_vars(RetryFire)

\* data.json as an earlier session may have left it: absent, or written after
\* the tafsir was cleared (settings.ts lines 890-893).
DataFiles ==
    {<<>>, <<[DEFAULT_SETTINGS EXCEPT !.tafsir = "", !.tafsirName = ""]>>}

\* The plugin after loadSettings has read one of these files.
InitCommentary ==
    /\ InitCard
    /\ \E data \in DataFiles :
         /\ stored = data
         /\ settings = LoadSettings(data)
    /\ languages = <<>>
    /\ tafsirLanguages = <<>>
    /\ editions = <<>>
    /\ tafsirEditions = <<>>
    /\ isLoadingMetadata = FALSE
    /\ ui = [languages |-> {}, editions |-> {}, tafsirLanguages |-> {}, tafsirEditions |-> {}]
    /\ pc = [p \in Procs |-> "idle"]
    /\ locals = [p \in Procs |-> NoLocals]
    /\ userOps = 0
    /\ remember = FALSE
    /\ atStart = <<>>
    /\ ran = "onload"
    /\ requests = <<>>
    /\ notices = <<>>
    /\ unhandled = FALSE

\* A step of the card in which no render cycle fails: the failure path of
\* renderVerse and its retries are followed in SpecCard.
Answered(step) == step /\ cardPc' # "failed"

NextCommentary ==
    \/ Answered(RenderBlock)
    \/ Answered(RefResponse)
    \/ Answered(ArResponse)
    \/ Answered(TrResponse)
    \/ Answered(ReloadClick)
    \/ Answered(Teardown)
    \/ TafsirClick
    \/ TafsirResponse

\* One verse card whose verse lookups are answered, and its commentary
\* button, with the settings as loaded.
SpecCommentary == InitCommentary /\ [][NextCommentary]_vars

\* data.json as other versions of the plugin may have left it: keys missing,
\* and keys this version does not know.
PrefFiles ==
    DataFiles \cup
    {<<[font |-> "\"Amiri Quran\""]>>,
     <<[translation |-> "en.ahmedali", language |-> en, schemaVersion |-> "2"]>>,
     <<[tafsir |-> "en-al-jalalayn", tafsirName |-> "Al-Jalalayn", theme |-> "dark",
        schemaVersion |-> "3"]>>}

InitPrefs ==
    /\ InitCard
    /\ \E data \in PrefFiles :
         /\ stored = data
         /\ settings = LoadSettings(data)
    /\ languages = <<>>
    /\ tafsirLanguages = <<>>
    /\ editions = <<>>
    /\ tafsirEditions = <<>>
    /\ isLoadingMetadata = FALSE
    /\ ui = [languages |-> {}, editions |-> {}, tafsirLanguages |-> {}, tafsirEditions |-> {}]
    /\ pc = [p \in Procs |-> "idle"]
    /\ locals = [p \in Procs |-> NoLocals]
    /\ userOps = 0
    /\ remember = FALSE
    /\ atStart = <<>>
    /\ ran = "onload"
    /\ requests = <<>>
    /\ notices = <<>>
    /\ unhandled = FALSE

NextPrefs ==
    \/ FontSizeChange
    \/ FontChange
    \/ BackgroundColorChange
    \/ BackgroundColorReset
    \/ BackgroundColorResetSaved
    \/ Restart

\* The appearance settings of one plugin started from one of these files.
SpecPrefs == InitPrefs /\ [][NextPrefs]_vars

\* toArabicDigits is called with a number.
Transliterate ==
    /\ \E num \in (0 - MaxNumber)..MaxNumber :
         /\ digitsArg' = num
         /\ digitsResult' = toArabicDigits(num)
    /\ UNCHANGED <<cardPc, cycle, draw, reference, refReq, arReq, trReq, skeleton,
                   content, arabicSpan, timers, tornDown, cardCalls, cleared,
                   tafsirVars, metaVars>>

\* toArabicDigits on its own, over the numbers up to MaxNumber and their
\* negatives.
SpecDigits == Init /\ [][Transliterate]_vars

\* Language lists of GET /edition/language beyond the two of LanguageLists:
\* a code of the customNames table in either case, a code Intl.DisplayNames
\* rejects, and repeated codes.
SampleCodes == {en, ar, ber, <<"B", "E", "R">>, <<"q">>}
CodeLists == UNION {[1..n -> SampleCodes] : n \in 1..MaxListLen}

\* Payloads of tafsir/editions.json, one of them with a language name in two
\* spellings.
EnglishSpelled == CdnTafsirEdition("en-tafsir-maarif", "Maarif-ul-Quran", English)
SamplePayloads == TafsirPayloads \cup {<<IbnKathir, EnglishSpelled>>}

\* Lines 810-815 are applied to a language list.
MapLanguages ==
    /\ \E list \in CodeLists : languages' = LanguageEntries(list)
    /\ UNCHANGED <<cardVars, settings, stored, tafsirLanguages, editions, tafsirEditions,
                   isLoadingMetadata, ui, notices, unhandled, pc, locals, userOps,
                   remember, atStart, ran, requests>>

\* Lines 855-859 are applied to a tafsir payload and this.languages.
DeriveTafsirLanguages ==
    /\ \E payload \in SamplePayloads :
          tafsirLanguages' = DerivedTafsirLanguages(payload, languages)
    /\ UNCHANGED <<cardVars, settings, stored, languages, editions, tafsirEditions,
                   isLoadingMetadata, ui, notices, unhandled, pc, locals, userOps,
                   remember, atStart, ran, requests>>

NextCatalogs == MapLanguages \/ DeriveTafsirLanguages

\* The construction of the two language catalogs on its own, over the
\* language lists of up to MaxListLen codes.
SpecCatalogs == Init /\ [][NextCatalogs]_vars

\* The settings tab with no card in the document.
SpecMeta == Init /\ [][NextMeta]_vars

\* The settings tab, each pass remembering the catalogs it found.
SpecPass == InitPass /\ [][NextMeta]_vars

----------------------------------------------------------------------------
(* Properties of the verse card, checked under SpecCard *)

Settled(req) == req.state \in {"fulfilled", "rejected"}

\* renderVerse has been handed a failure of one of its three lookups: a
\* rejected request, or a logical code other than 200 (for the two edition
\* lookups the codes are handed over when Promise.all is fulfilled).
LookupFailed(r, a, t) ==
    \/ r.state = "rejected"
    \/ r.state = "fulfilled" /\ r.code # 200
    \/ a.state = "rejected"
    \/ t.state = "rejected"
    \/ a.state = "fulfilled" /\ t.state = "fulfilled" /\ (a.code # 200 \/ t.code # 200)

\* C1: both edition lookups are keyed by the global index of the reference
\* lookup's payload (data.number), whatever the random draw was; one asks for
\* the fixed original-language edition, the other for the configured
\* translation edition.
C1_EditionLookupsKeyedByCanonicalIndex ==
    /\ arReq.state # "none" =>
          arReq.key = refReq.number /\ arReq.edition = "quran-uthmani"
    /\ trReq.state # "none" =>
          trReq.key = refReq.number /\ trReq.edition = settings.translation

\* C1 witness: the lookup answered with an index other than the draw and both
\* edition lookups have been issued.
C1_Witness ==
    /\ refReq.state = "fulfilled"
    /\ refReq.number # draw
    /\ arReq.state # "none"
    /\ trReq.state # "none"

\* C2: in the step in which a lookup failure (rejection or logical code other
\* than 200) reaches renderVerse, no content part exists, the skeleton is
\* still in the card, and exactly one timer is added, of 5000 ms with nothing
\* elapsed; a cycle never has two timers, and a timer fires only once its
\* 5000 ms have elapsed.
C2_RetryScheduledOnLookupFailure ==
    [][ /\ (~LookupFailed(refReq, arReq, trReq) /\ LookupFailed(refReq', arReq', trReq'))
            => /\ content' = <<>>
               /\ skeleton'
               /\ \E t \in timers' \ timers :
                    /\ timers' = timers \cup {t}
                    /\ t.delay = 5000
                    /\ t.elapsed = 0
                    /\ t.cycle = cycle
        /\ Cardinality({t \in timers' : t.cycle = cycle'}) <= 1
        /\ (Cardinality(timers') < Cardinality(timers) /\ tornDown' = tornDown)
            => \E t \in timers : timers' = timers \ {t} /\ t.elapsed >= 5000
      ]_vars

\* C2 witness: an edition lookup answered with a logical code other than 200
\* over a successful transport, and the retry is pending.
C2_Witness ==
    /\ arReq.state = "fulfilled"
    /\ trReq.state = "fulfilled"
    /\ trReq.code # 200
    /\ skeleton
    /\ content = <<>>
    /\ \E t \in timers : t.cycle = cycle /\ t.elapsed = 0

\* C3: tearing the surface down cancels every pending retry, and from then on,
\* unless a render cycle was in flight at the teardown, the surface starts no
\* render cycle and makes no remote call.
C3_TeardownCancelsRetry ==
    [][ /\ (~tornDown /\ tornDown') => timers' = {}
        /\ (tornDown /\ cardPc \notin {"awaitRef", "awaitEditions"})
            => cycle' = cycle /\ cardCalls' = cardCalls
      ]_vars

\* C3 witness: a retry was pending when the surface was torn down.
C3_Witness == tornDown /\ cleared > 0 /\ cardPc = "failed"

\* C4: once the reference lookup has passed, both edition lookups are in
\* flight; neither is ever settled while the other has not been issued.
C4_BothInFlightBeforeEitherResolves ==
    /\ reference # 0 => arReq.state # "none" /\ trReq.state # "none"
    /\ Settled(arReq) => trReq.state # "none"
    /\ Settled(trReq) => arReq.state # "none"

\* C4 witness: both edition lookups are in flight at once.
C4_Witness == arReq.state = "pending" /\ trReq.state = "pending"

\* C5: content is created only after both edition lookups were fulfilled; the
\* step in which one of them is rejected while renderVerse awaits the pair
\* takes the failure path at once, whatever the state of the other; and the
\* other's late answer changes nothing on the card.
C5_JointWaitFailsFast ==
    [][ /\ (content' # <<>> \/ cardPc' = "shown")
            => arReq'.state = "fulfilled" /\ trReq'.state = "fulfilled"
        /\ (/\ cardPc = "awaitEditions"
            /\ arReq'.state = "rejected" \/ trReq'.state = "rejected")
            => /\ cardPc' = "failed"
               /\ content' = <<>>
               /\ Cardinality(timers') = Cardinality(timers) + 1
        /\ (cardPc = "failed" /\ (arReq' # arReq \/ trReq' # trReq) /\ cycle' = cycle)
            => UNCHANGED <<cardPc, skeleton, content, timers>>
      ]_vars

\* C5 witness: the cycle has failed on a rejected edition lookup while the
\* other one is still in flight.
C5_Witness ==
    /\ cardPc = "failed"
    /\ \/ arReq.state = "rejected" /\ trReq.state = "pending"
       \/ trReq.state = "rejected" /\ arReq.state = "pending"

\* C6: content exists, or the skeleton is gone, only if all three responses
\* carry logical code 200; three answered lookups one of which carries
\* another code leave the card failed, with its skeleton and no content.
C6_ContentOnlyIfAllCodes200 ==
    /\ (content # <<>> \/ cardPc = "shown" \/ (cycle > 0 /\ ~skeleton))
          => refReq.code = 200 /\ arReq.code = 200 /\ trReq.code = 200
    /\ (refReq.state = "fulfilled" /\ refReq.code # 200)
          => cardPc = "failed" /\ arReq.state = "none" /\ trReq.state = "none"
    /\ (/\ arReq.state = "fulfilled"
        /\ trReq.state = "fulfilled"
        /\ arReq.code # 200 \/ trReq.code # 200)
          => cardPc = "failed" /\ skeleton /\ content = <<>>

\* C6 witness: the transport of all three lookups succeeded, the
\* original-language payload is complete with code 200, and the translation
\* response carries another code.
C6_Witness ==
    /\ refReq.state = "fulfilled"
    /\ arReq.state = "fulfilled"
    /\ arReq.code = 200
    /\ trReq.state = "fulfilled"
    /\ trReq.code # 200
    /\ cardPc = "failed"

----------------------------------------------------------------------------
(* Properties of the settings tab, checked under SpecMeta *)

Sorted(list) ==
    \A i, j \in 1..Len(list) : i < j => LocaleCompare(list[i].name, list[j].name) <= 0

AllIdle == \A p \in Procs : pc[p] = "idle"

\* Handler p has just received a tafsir payload that passed the type guard.
TafsirsArrived(p) == pc[p] = "tafsirs" /\ pc'[p] # "tafsirs" /\ notices' = <<>>

\* Handler p has just filtered the tafsir catalog and selected the edition.
TafsirsFiltered(p) ==
    \/ pc[p] \in {"tafsirs", "tafsirSave1"} /\ pc'[p] = "tafsirSave2"
    \/ pc[p] \in {"tafsirs", "tafsirSave1"} /\ pc'[p] = "idle" /\ notices' = <<>>

\* C7: an invocation of fetchMetadata made while a pass is in flight issues
\* no request, changes no catalog and no setting, writes nothing, raises no
\* notice and moves no handler; and a pass is never started by anything other
\* than an invocation made while no pass is in flight, so the ignored
\* invocation is not run later.
C7_BusyRefreshIsSilentNoOp ==
    [][/\ (ran' = "fetchMetadata" /\ isLoadingMetadata)
          => /\ requests' = <<>>
             /\ notices' = <<>>
             /\ ~unhandled'
             /\ UNCHANGED <<settings, stored, languages, tafsirLanguages, editions,
                            tafsirEditions, isLoadingMetadata, ui, pc, locals>>
       /\ (\E i \in 1..Len(requests') : requests'[i] = "languages")
          => (ran' = "fetchMetadata" /\ ~isLoadingMetadata)]_vars

\* A pass is in flight and the latest invocation of fetchMetadata was ignored.
C7_Witness ==
    /\ ran = "fetchMetadata"
    /\ requests = <<>>
    /\ isLoadingMetadata
    /\ pc["refresh"] \in {"editions", "tafsirs"}

\* C8 (as claimed): whenever no handler of the settings tab is in flight, the
\* persisted translation edition id belongs to the text translations of the
\* persisted translation language.
C8_PersistedTranslationInCatalog ==
    (AllIdle /\ stored # <<>>)
        => stored[1].translation \in Ids(TextTranslations(RemoteEditions(stored[1].language)))

\* C9 (as claimed): whenever a tafsir pass has filtered the catalog, the
\* configured tafsir id is a member of the filtered catalog.
C9_TafsirAlwaysInFilteredCatalog ==
    [][\A p \in TafsirProcs :
          TafsirsFiltered(p) => settings'.tafsir \in Ids(tafsirEditions')]_vars

\* C9 (amended): whenever a tafsir pass has filtered the catalog and the
\* filtered catalog is not empty, its entries are those of the configured
\* tafsir language and the configured tafsir id is one of them; if the id
\* configured before was not, the id and the display name are those of the
\* first filtered entry and the record is persisted.
C9_TafsirInNonEmptyFilteredCatalog ==
    [][\A p \in TafsirProcs :
          (TafsirsFiltered(p) /\ tafsirEditions' # <<>>)
             => /\ \A i \in 1..Len(tafsirEditions') :
                      ToLowerCase(tafsirEditions'[i].language)
                          = ToLowerCase(getFullLanguageName(settings'.tafsirLanguage))
                /\ settings'.tafsir \in Ids(tafsirEditions')
                /\ settings.tafsir \notin Ids(tafsirEditions')
                      => /\ settings'.tafsir = tafsirEditions'[1].identifier
                         /\ settings'.tafsirName = tafsirEditions'[1].name
                         /\ stored' = <<settings'>>]_vars

\* A pass found the configured id absent from a filtered catalog of several
\* entries, replaced it by the first and awaits the write.
C9_Witness ==
    \E p \in TafsirProcs :
        /\ ran = p
        /\ pc[p] = "tafsirSave2"
        /\ Len(tafsirEditions) >= 2
        /\ settings.tafsir = tafsirEditions[1].identifier
        /\ settings.tafsirName = tafsirEditions[1].name
        /\ stored = <<settings>>

\* C10: when a tafsir payload has arrived, the tafsir language list is
\* sorted by name; if the configured tafsir language code is not in it, the
\* code becomes that of the first entry ("en" when the list is empty) and the
\* record is persisted while the tafsir editions are still unfiltered;
\* otherwise the configured code is left as it was.
C10_TafsirLanguageReconciled ==
    [][\A p \in TafsirProcs :
          TafsirsArrived(p)
             => /\ Sorted(tafsirLanguages')
                /\ IF settings.tafsirLanguage \notin Codes(tafsirLanguages')
                   THEN /\ settings'.tafsirLanguage =
                              (IF tafsirLanguages' # <<>> THEN tafsirLanguages'[1].code ELSE en)
                        /\ stored' = <<settings'>>
                        /\ pc'[p] = "tafsirSave1"
                        /\ tafsirEditions' = tafsirEditions
                   ELSE settings'.tafsirLanguage = settings.tafsirLanguage]_vars

\* A pass replaced the configured tafsir language by the first of several
\* and awaits the write.
C10_Witness ==
    \E p \in TafsirProcs :
        /\ ran = p
        /\ pc[p] = "tafsirSave1"
        /\ Len(tafsirLanguages) >= 2
        /\ settings.tafsirLanguage = tafsirLanguages[1].code
        /\ settings.tafsirLanguage # DEFAULT_SETTINGS.tafsirLanguage
        /\ stored = <<settings>>

\* C11: whenever a tafsir pass has filtered the catalog and the filtered
\* catalog is empty, and whenever display() runs with an empty tafsir
\* catalog, the tafsir id and the tafsir display name are both the empty
\* string, in memory and in the persisted record.
C11_EmptyFilteredSetClearsTafsir ==
    [][((\E p \in TafsirProcs : TafsirsFiltered(p)) \/ ran' = "display")
         /\ tafsirEditions' = <<>>
          => /\ settings'.tafsir = ""
             /\ settings'.tafsirName = ""
             /\ stored' # <<>>
             /\ stored'[1].tafsir = ""
             /\ stored'[1].tafsirName = ""]_vars

\* A pass filtered a payload that is not empty down to nothing, cleared the
\* tafsir and awaits the write.
C11_Witness ==
    \E p \in TafsirProcs :
        /\ ran = p
        /\ pc[p] = "tafsirSave2"
        /\ tafsirLanguages # <<>>
        /\ tafsirEditions = <<>>
        /\ settings.tafsir = ""
        /\ settings.tafsirName = ""
        /\ stored = <<settings>>

\* The refresh pass has just ended in its catch block.
RefreshFailed ==
    /\ pc["refresh"] # "idle"
    /\ pc'["refresh"] = "idle"
    /\ \E i \in 1..Len(notices') : notices'[i] = NoticeUnexpected

\* C12 (as claimed): when a step of a refresh pass fails, the pass issues no
\* further request and the four catalogs are exactly as the pass found them
\* when it started.
C12_FailedPassLeavesCatalogsAsFound ==
    [][RefreshFailed => (requests' = <<>> /\ <<Catalogs'>> = atStart)]_vars

\* C13 (as claimed): the step in which a refresh pass fails raises exactly
\* one notice and issues no request, and the pass is over.
C13_FailedPassRaisesOneNotice ==
    [][RefreshFailed => (Len(notices') = 1 /\ requests' = <<>>)]_vars

\* C14 (as claimed): no step of a handler of the settings tab leaves the
\* rejection of a remote call uncaught.
C14_NoUnhandledRejection == ~unhandled

----------------------------------------------------------------------------
(* Properties of the commentary lookup, checked under SpecCommentary *)

\* C15: a click with no tafsir edition configured, an answer whose ayahs
\* array holds no entry for the verse, and an answer that is null or has no
\* ayahs array each raise one notice, and the three notices differ from one
\* another.
C15_CommentaryFailuresDistinct ==
    LET notFound == NoticeNotFound(lookup.ayah, lookup.surah) IN
    /\ lookup.state = "skipped" => cardNotices = <<NoticeNoTafsir>>
    /\ (/\ lookup.state = "fulfilled"
        /\ IsSurahResponse(lookup.json)
        /\ \A i \in 1..Len(lookup.json.ayahs) : lookup.json.ayahs[i].ayah # lookup.ayah)
          => cardNotices = <<notFound>>
    /\ (lookup.state = "fulfilled" /\ ~IsSurahResponse(lookup.json))
          => cardNotices = <<NoticeCommentaryFailed>>
    /\ NoticeNoTafsir # notFound
    /\ NoticeNoTafsir # NoticeCommentaryFailed
    /\ lookup.state = "fulfilled" => notFound # NoticeCommentaryFailed

\* The answer to a lookup held other verses of the chapter but not the one
\* asked for.
C15_Witness ==
    /\ lookup.state = "fulfilled"
    /\ lookup.json.ayahs # <<>>
    /\ FindAyah(lookup.json.ayahs, lookup.ayah) = <<>>
    /\ cardNotices # <<>>

----------------------------------------------------------------------------
(* Properties of the stored settings, checked under SpecPrefs *)

Recognized == DOMAIN DEFAULT_SETTINGS

\* C16: a load that follows a save gives back every recognized key as it was
\* saved; a load gives a recognized key that data.json lacks its default;
\* and a key of data.json that is not recognized is in the loaded record
\* with its stored value and is written back unchanged by every save.
C16_SettingsRoundTrip ==
    [][/\ (ran' = "onload" /\ stored = <<settings>>)
          => \A k \in Recognized : settings'[k] = settings[k]
       /\ ran' = "onload"
          => \A k \in Recognized :
                (stored = <<>> \/ k \notin DOMAIN stored[1])
                   => settings'[k] = DEFAULT_SETTINGS[k]
       /\ (ran' = "onload" /\ stored # <<>>)
          => \A k \in DOMAIN stored[1] \ Recognized :
                k \in DOMAIN settings' /\ settings'[k] = stored[1][k]
       /\ (stored # <<>> /\ stored' # stored)
          => \A k \in DOMAIN stored[1] \ Recognized :
                k \in DOMAIN stored'[1] /\ stored'[1][k] = stored[1][k]]_vars

\* A record with an unrecognized key and a changed recognized key was saved,
\* and the plugin has been started again from it.
C16_Witness ==
    /\ ran = "onload"
    /\ stored = <<settings>>
    /\ DOMAIN settings # Recognized
    /\ settings.font # DEFAULT_SETTINGS.font
    /\ settings.fontSize # DEFAULT_SETTINGS.fontSize

----------------------------------------------------------------------------
(* Properties of toArabicDigits, checked under SpecDigits *)

\* The number of decimal digits of a non-negative integer.
RECURSIVE DecimalLength(_)
DecimalLength(n) == IF n < 10 THEN 1 ELSE 1 + DecimalLength(n \div 10)

RECURSIVE TenTo(_)
TenTo(k) == IF k = 0 THEN 1 ELSE 10 * TenTo(k - 1)

\* The digit of n that has i - 1 digits before it.
DecimalDigit(n, i) == (n \div TenTo(DecimalLength(n) - i)) % 10

\* The code point of the d-th glyph of the table, d in 0..9.
GlyphCodePoint(d) ==
    CASE d = 0 -> "U+0660" [] d = 1 -> "U+0661" [] d = 2 -> "U+0662"
      [] d = 3 -> "U+0663" [] d = 4 -> "U+0664" [] d = 5 -> "U+0665"
      [] d = 6 -> "U+0666" [] d = 7 -> "U+0667" [] d = 8 -> "U+0668"
      [] d = 9 -> "U+0669"

\* C17: a number d of 0..9 gives the d-th glyph of the table alone; a
\* non-negative number gives as many glyphs as it has decimal digits, the
\* i-th being the glyph of its i-th digit, most significant first; and the
\* "-" of a negative number, which the table does not hold, comes out
\* unchanged in its place before the glyphs of the digits.
C17_DigitTransliteration ==
    digitsResult # <<>> =>
        /\ digitsArg \in 0..9 => digitsResult = <<GlyphCodePoint(digitsArg)>>
        /\ digitsArg >= 0 =>
              /\ Len(digitsResult) = DecimalLength(digitsArg)
              /\ \A i \in 1..Len(digitsResult) :
                    digitsResult[i] = GlyphCodePoint(DecimalDigit(digitsArg, i))
        /\ digitsArg < 0 =>
              /\ Len(digitsResult) = 1 + DecimalLength(0 - digitsArg)
              /\ digitsResult[1] = "-"
              /\ \A i \in 2..Len(digitsResult) :
                    digitsResult[i] = GlyphCodePoint(DecimalDigit(0 - digitsArg, i - 1))

\* 255 came out as the glyphs of 2, 5 and 5.
C17_Witness ==
    /\ digitsArg = 255
    /\ digitsResult = <<"U+0662", "U+0665", "U+0665">>

----------------------------------------------------------------------------
(* The rendered original-language text, checked under SpecCard *)

\* The glyphs of a non-negative number, most significant digit first.
GlyphsOf(n) == [i \in 1..DecimalLength(n) |-> GlyphCodePoint(DecimalDigit(n, i))]

\* C18: on a shown verse the original-language span is the text of the
\* original-language response, then the end-of-verse glyph, then the glyphs
\* of that response's numberInSurah, in this order and with nothing else.
C18_ArabicSpanIsTextGlyphNumber ==
    cardPc = "shown" =>
        LET arData == Verse(arReq.number) IN
        /\ arReq.state = "fulfilled"
        /\ Len(arabicSpan) = 2 + DecimalLength(arData.numberInSurah)
        /\ arabicSpan[1] = arData.text
        /\ arabicSpan[2] = " U+06DD"
        /\ SubSeq(arabicSpan, 3, Len(arabicSpan)) = GlyphsOf(arData.numberInSurah)

\* Verse 108 of chapter 5 is shown with its three-glyph number.
C18_Witness ==
    /\ cardPc = "shown"
    /\ arabicSpan = <<"text of 5:108", " U+06DD", "U+0661", "U+0660", "U+0668">>

\* C19: a response with logical code 200 and a wrong shape leaves the card
\* as a failed request does: the cycle has failed, the skeleton is in place
\* and nothing of the payloads is displayed, whichever of the three
\* responses is the malformed one.
C19_MalformedPayloadLeavesLoadingState ==
    LET malformed(r) == r.state = "fulfilled" /\ r.code = HttpOk /\ r.shape # "full"
        answered(r) == r.state = "fulfilled" /\ r.code = HttpOk
    IN  /\ malformed(refReq) => cardPc = "failed" /\ skeleton /\ content = <<>>
        /\ (/\ answered(arReq)
            /\ answered(trReq)
            /\ malformed(arReq) \/ malformed(trReq))
              => cardPc = "failed" /\ skeleton /\ content = <<>>

----------------------------------------------------------------------------
(* The retry policy, checked under SpecCardFair *)

\* C20: every registered retry has the delay of 5000 ms, whichever cycle
\* registered it, and a failed cycle of a card that stays in the document is
\* followed by the next cycle, for every cycle number within MaxCycles: no
\* count of failures ends the retries.
C20_RetryUnboundedNoBackoff ==
    /\ [](\A t \in timers : t.delay = 5000)
    /\ \A c \in 1..(MaxCycles - 1) :
          (cardPc = "failed" /\ cycle = c /\ ~tornDown) ~> (cycle = c + 1 \/ tornDown)

\* Three cycles in a row failed at the reference lookup, and the third
\* failure has registered its retry of 5000 ms like the first.
C20_Witness ==
    /\ cycle = 3
    /\ cardCalls = 3
    /\ cardPc = "failed"
    /\ ~tornDown
    /\ \E t \in timers : t.cycle = 3 /\ t.delay = 5000

----------------------------------------------------------------------------
(* The language catalogs, checked under SpecCatalogs *)

\* String.prototype.toUpperCase
ToUpperCase(str) == [i \in 1..Len(str) |-> CharToUpper(str[i])]

\* The name the three-stage resolution gives a code: the override table,
\* then the locale-name service for the codes it knows, then the code in
\* upper case.
ResolvedName(code) ==
    CASE ToLowerCase(code) = ber -> Berber
      [] ToLowerCase(code) = <<"c", "e">> -> Chechen
      [] code = en -> English
      [] code = ar -> Arabic
      [] OTHER -> ToUpperCase(code)

\* C21: every entry of the language catalog carries the name the override
\* table gives its code, else the name of the locale-name service, else the
\* code in upper case; and the catalog is in ascending order of name.
C21_NamesResolvedAndSorted ==
    /\ \A i \in 1..Len(languages) : languages[i].name = ResolvedName(languages[i].code)
    /\ Sorted(languages)

UniqueCodes(langs) ==
    \A i, j \in 1..Len(langs) : langs[i].code = langs[j].code => i = j

\* C22: no two entries of the language catalog share a code, and no two
\* entries of the derived tafsir-language catalog share a code.
C22_CatalogCodesUnique ==
    /\ UniqueCodes(languages)
    /\ UniqueCodes(tafsirLanguages)

\* C23: a step of the click handler of the tafsir button, whether it skips
\* the lookup, sends it, or settles it in any way, leaves the card's phase,
\* its cycle, its content and the lookups of the verse as they were.
C23_CommentaryLeavesCardAlone ==
    [][lookup' # NoLookup
          => UNCHANGED <<cardPc, cycle, draw, reference, refReq, arReq, trReq,
                         skeleton, content, arabicSpan, cardCalls, timers>>]_vars

\* A modal was opened for the verse on the card, which is still shown whole.
C23_Witness ==
    /\ opened # <<>>
    /\ lookup.cycle = cycle
    /\ cardPc = "shown"
    /\ content = <<"arabic", "translation", "footer">>

----------------------------------------------------------------------------
(* The busy flag of fetchMetadata, checked under SpecMeta *)

\* The number of awaits a refresh pass has before it at most.
AwaitsLeft(at) ==
    CASE at = "languages" -> 5
      [] at = "editions" -> 4
      [] at = "tafsirs" -> 3
      [] at = "tafsirSave1" -> 2
      [] at = "tafsirSave2" -> 1
      [] OTHER -> 0

\* C24: the flag is set exactly while a refresh pass is under way, so that
\* no pass that has ended, in success or in failure, leaves it set; a pass
\* under way is at one of its awaits; and every step of a pass brings it
\* nearer its end, where the flag is cleared.
C24_BusyFlagReleased ==
    /\ [](isLoadingMetadata <=> pc["refresh"] # "idle")
    /\ [](isLoadingMetadata => AwaitsLeft(pc["refresh"]) > 0)
    /\ [][pc["refresh"]' # pc["refresh"] /\ pc["refresh"] # "idle"
            => AwaitsLeft(pc["refresh"]') < AwaitsLeft(pc["refresh"])]_vars

\* A refresh pass has just failed, and the flag is clear.
C24_Witness ==
    /\ ran = "refresh"
    /\ pc["refresh"] = "idle"
    /\ NoticeUnexpected \in Range(notices)
    /\ ~isLoadingMetadata

----------------------------------------------------------------------------
(* One render cycle or one retry at a time, checked under SpecCard *)

CycleInFlight == cardPc \in {"awaitRef", "awaitEditions"}

\* C25: a card never has two retry timers pending, nor a retry timer pending
\* while a render cycle is in flight; and a render cycle is started only
\* when none is in flight: by the reload button of a shown verse, by a retry
\* of a failed cycle, or by the first rendering.
C25_OneCycleOrOneRetry ==
    /\ [](Cardinality(timers) + (IF CycleInFlight THEN 1 ELSE 0) <= 1)
    /\ [][cycle' # cycle => ~CycleInFlight /\ CycleInFlight']_vars

\* The second cycle of a card, started from the reload button, has failed
\* and its retry is the one pending timer.
C25_Witness ==
    /\ cycle = 2
    /\ cardPc = "failed"
    /\ Cardinality(timers) = 1
    /\ cardCalls >= 4

\* C26: once the surface is torn down the card makes no remote call, even
\* when a render cycle was in flight at the teardown: neither the edition
\* lookups after its reference lookup resolves, nor a call of a retry.
C26_NoCallAfterTeardown ==
    [][tornDown => cardCalls' = cardCalls]_vars

----------------------------------------------------------------------------
(* The writers of the catalogs, checked under SpecMeta *)

\* Handler p is inside fetchAndProcessTafsirs.
InTafsirs(p) == pc[p] \in {"tafsirs", "tafsirSave1", "tafsirSave2"}

\* C27: while a refresh pass holds the busy flag, neither language handler
\* is inside its own fetch; hence two executions of fetchTranslationEditions
\* are never under way together, nor two of fetchAndProcessTafsirs.
C27_BusyFlagSerializesWriters ==
    /\ isLoadingMetadata
          => pc["langChange"] # "editions" /\ ~InTafsirs("tafsirLangChange")
    /\ ~(pc["refresh"] = "editions" /\ pc["langChange"] = "editions")
    /\ ~(InTafsirs("refresh") /\ InTafsirs("tafsirLangChange"))

----------------------------------------------------------------------------
(* The tafsir button and stale lookups, checked under SpecCommentary *)

\* C28: the button of a lookup in flight is disabled, a button is disabled
\* only while its lookup is in flight, whatever way the lookup ends, and the
\* card never has two commentary lookups in flight.
C28_OneCommentaryLookupAtATime ==
    /\ disabled = {sent.cycle : sent \in inFlight}
    /\ Cardinality(inFlight) <= 1

\* C30: a modal is opened only by the lookup of the verse now on the card:
\* the lookup was sent in the current cycle and the card is in the document.
C30_ModalOnlyForDisplayedVerse ==
    opened # <<>> => lookup.cycle = cycle /\ ~tornDown

----------------------------------------------------------------------------
(* What a tafsir pass leaves unsaved, checked under SpecMeta *)

\* C29: in the step in which a tafsir pass ends without an error, the
\* tafsir language, the tafsir id and the tafsir display name read back from
\* the persisted record are those in memory.
C29_PassLeavesNothingUnsaved ==
    [][\A p \in TafsirProcs :
          (InTafsirs(p) /\ pc'[p] = "idle" /\ notices' = <<>> /\ ~unhandled')
             => /\ LoadSettings(stored').tafsirLanguage = settings'.tafsirLanguage
                /\ LoadSettings(stored').tafsir = settings'.tafsir
                /\ LoadSettings(stored').tafsirName = settings'.tafsirName]_vars

====
